---- MODULE Spec2Model ----
(***************************************************************************)
(* Model of scripts/docs-list.ts: resolveDocsDir, walkMarkdownFiles,       *)
(* extractMetadata and the report loop.                                    *)
(*                                                                         *)
(* A JavaScript string is modelled as a sequence of one-character strings, *)
(* so that startsWith, indexOf, slice, trim, split and the two regular     *)
(* expressions of the script are computed character by character.  A path  *)
(* is a sequence of segment names (each name a string in that sense).      *)
(***************************************************************************)
EXTENDS Integers, Sequences, FiniteSets, TLC

VARIABLES
    argv,            \* process.argv.slice(2): sequence of strings
    envDocsDir,      \* process.env.DOCS_DIR: a string, or Undefined
    envDocsRoot,     \* process.env.DOCS_ROOT: a string, or Undefined
    cwd,             \* process.cwd(): absolute path, sequence of names
    fs,              \* the file system: set of [path, kind, content]
    pc,              \* position of the script
    docsDir,         \* the constant DOCS_DIR (line 84)
    markdownFiles,   \* line 202
    fileIdx,         \* index of relativePath in the loop of line 204
    lines,           \* extractMetadata: lines (line 139)
    lineIdx,         \* extractMetadata: index of rawLine in the loop of line 145
    summaryLine,     \* extractMetadata: summaryLine (line 141)
    readWhen,        \* extractMetadata: readWhen (line 142)
    collectingField, \* extractMetadata: collectingField (line 143)
    result,          \* value returned by extractMetadata
    out,             \* lines written by console.log / console.error
    exitCode         \* process exit code, or Running

vars == <<argv, envDocsDir, envDocsRoot, cwd, fs, pc, docsDir, markdownFiles,
          fileIdx, lines, lineIdx, summaryLine, readWhen, collectingField,
          result, out, exitCode>>

(***************************************************************************)
(* Values that stand for JavaScript's undefined / null and for "still      *)
(* running".  They are sequences too, so that they compare with strings.   *)
(***************************************************************************)
Undefined == <<"<undefined>">>
Null      == <<"<null>">>
Running   == 0 - 1

(***************************************************************************)
(* String primitives                                                       *)
(***************************************************************************)
\* characters matched by \s and removed by String.prototype.trim
WhiteSpace == {" ", "\t", "\n", "\r"}

\* the characters of the class ['"] in the regular expression of line 189
QuoteChars == {"'", "\""}

Min(S) == CHOOSE x \in S : \A y \in S : x <= y
Max(S) == CHOOSE x \in S : \A y \in S : x >= y

\* s.startsWith(p)
StartsWith(s, p) == Len(s) >= Len(p) /\ SubSeq(s, 1, Len(p)) = p

\* s.endsWith(p)
EndsWith(s, p) == Len(s) >= Len(p) /\ SubSeq(s, Len(s) - Len(p) + 1, Len(s)) = p

\* s.slice(from), from a 0-based index
Slice(s, from) == SubSeq(s, from + 1, Len(s))

\* s.slice(from, to), 0-based, to exclusive
Slice2(s, from, to) == SubSeq(s, from + 1, to)

\* s.trim()
Trim(s) ==
    LET keep == {i \in 1..Len(s) : s[i] \notin WhiteSpace}
    IN  IF keep = {} THEN <<>> ELSE SubSeq(s, Min(keep), Max(keep))

\* s.indexOf(p, from): 0-based index of the first occurrence at or after from, or -1
IndexOfFrom(s, p, from) ==
    LET hits == {i \in from..(Len(s) - Len(p)) : SubSeq(s, i + 1, i + Len(p)) = p}
    IN  IF hits = {} THEN -1 ELSE Min(hits)

\* s.split(sep) for a one-character separator
RECURSIVE Split(_, _)
Split(s, sep) ==
    LET hits == {i \in 1..Len(s) : s[i] = sep}
    IN  IF hits = {} THEN <<s>>
        ELSE <<SubSeq(s, 1, Min(hits) - 1)>> \o Split(SubSeq(s, Min(hits) + 1, Len(s)), sep)

\* parts.join(sep)
RECURSIVE Join(_, _)
Join(parts, sep) ==
    IF parts = <<>> THEN <<>>
    ELSE IF Len(parts) = 1 THEN parts[1]
    ELSE parts[1] \o sep \o Join(Tail(parts), sep)

\* s.replace(/'/g, '"')
ReplaceSingleQuotes(s) == [i \in 1..Len(s) |-> IF s[i] = "'" THEN "\"" ELSE s[i]]

\* s.replace(/^['"]|['"]$/g, ''): the first alternative matches a quote at
\* index 0; the scan then goes on after that match, where only the second
\* alternative can match, a quote that is the last character.
StripQuotes(s) ==
    LET lead == IF Len(s) > 0 /\ s[1] \in QuoteChars THEN 1 ELSE 0
        rest == Slice(s, lead)
        trail == IF Len(rest) > 0 /\ rest[Len(rest)] \in QuoteChars THEN 1 ELSE 0
    IN  SubSeq(rest, 1, Len(rest) - trail)

\* s.replace(/\s+/g, ' ')
RECURSIVE CollapseWhiteSpace(_)
CollapseWhiteSpace(s) ==
    IF s = <<>> THEN <<>>
    ELSE IF s[1] \in WhiteSpace
         THEN LET after == {i \in 1..Len(s) : s[i] \notin WhiteSpace}
              IN  IF after = {} THEN <<" ">>
                  ELSE <<" ">> \o CollapseWhiteSpace(SubSeq(s, Min(after), Len(s)))
         ELSE <<s[1]>> \o CollapseWhiteSpace(Tail(s))

(***************************************************************************)
(* String literals of the script                                           *)
(***************************************************************************)
FenceText        == <<"-", "-", "-">>
NlFenceText      == <<"\n", "-", "-", "-">>
SummaryKey       == <<"s", "u", "m", "m", "a", "r", "y", ":">>
ReadWhenKey      == <<"r", "e", "a", "d", "_", "w", "h", "e", "n", ":">>
ItemPrefix       == <<"-", " ">>
ReadWhenField    == <<"read_when">>
ErrMissing       == <<"m", "i", "s", "s", "i", "n", "g", " ", "f", "r", "o", "n", "t", " ",
                      "m", "a", "t", "t", "e", "r">>
ErrUnterminated  == <<"u", "n", "t", "e", "r", "m", "i", "n", "a", "t", "e", "d", " ",
                      "f", "r", "o", "n", "t", " ", "m", "a", "t", "t", "e", "r">>
ErrKeyMissing    == <<"s", "u", "m", "m", "a", "r", "y", " ", "k", "e", "y", " ",
                      "m", "i", "s", "s", "i", "n", "g">>
ErrEmpty         == <<"s", "u", "m", "m", "a", "r", "y", " ", "i", "s", " ",
                      "e", "m", "p", "t", "y">>

(***************************************************************************)
(* JSON.parse, for the values an inline list can hold: strings without     *)
(* escape sequences, integers >= 0, true, false, null, nested arrays.  A   *)
(* parsed value is kept as [isNull, str] with str = String(value), which   *)
(* is all that compactStrings reads of it.  Objects, fractions, exponents  *)
(* and backslash escapes are outside the model: the inputs hold none.      *)
(***************************************************************************)
JsonWhiteSpace == {" ", "\t", "\n", "\r"}
JsonDigits     == {"0", "1", "2", "3", "4", "5", "6", "7", "8", "9"}
JsonControl    == {"\t", "\n", "\r"}
JsonFail       == [ok |-> FALSE, pos |-> 0, isNull |-> FALSE, str |-> <<>>, elems |-> <<>>]

SkipWs(s, i) ==
    LET stop == {j \in i..Len(s) : s[j] \notin JsonWhiteSpace}
    IN  IF stop = {} THEN Len(s) + 1 ELSE Min(stop)

HasAt(s, i, lit) == i + Len(lit) - 1 <= Len(s) /\ SubSeq(s, i, i + Len(lit) - 1) = lit

\* String(array): Array.prototype.join(','), null elements giving ''
RECURSIVE JoinElems(_)
JoinElems(elems) ==
    IF elems = <<>> THEN <<>>
    ELSE LET h == IF elems[1].isNull THEN <<>> ELSE elems[1].str
         IN  IF Len(elems) = 1 THEN h ELSE h \o <<",">> \o JoinElems(Tail(elems))

RECURSIVE ParseValue(_, _), ParseElems(_, _)
\* the value that starts at index i (1-based) of s, i not on white space
ParseValue(s, i) ==
    IF i > Len(s) THEN JsonFail
    ELSE IF s[i] = "\"" THEN
        LET close == {j \in (i + 1)..Len(s) : s[j] = "\""}
        IN  IF close = {} THEN JsonFail
            ELSE LET body == SubSeq(s, i + 1, Min(close) - 1)
                 IN  IF \E k \in 1..Len(body) : body[k] \in JsonControl \/ body[k] = "\\"
                     THEN JsonFail
                     ELSE [ok |-> TRUE, pos |-> Min(close) + 1, isNull |-> FALSE,
                           str |-> body, elems |-> <<>>]
    ELSE IF s[i] = "[" THEN
        LET j == SkipWs(s, i + 1)
        IN  IF j <= Len(s) /\ s[j] = "]"
            THEN [ok |-> TRUE, pos |-> j + 1, isNull |-> FALSE, str |-> <<>>, elems |-> <<>>]
            ELSE LET r == ParseElems(s, j)
                 IN  IF r.ok THEN [r EXCEPT !.str = JoinElems(r.elems)] ELSE JsonFail
    ELSE IF HasAt(s, i, <<"n", "u", "l", "l">>) THEN
        [ok |-> TRUE, pos |-> i + 4, isNull |-> TRUE, str |-> <<>>, elems |-> <<>>]
    ELSE IF HasAt(s, i, <<"t", "r", "u", "e">>) THEN
        [ok |-> TRUE, pos |-> i + 4, isNull |-> FALSE, str |-> <<"t", "r", "u", "e">>,
         elems |-> <<>>]
    ELSE IF HasAt(s, i, <<"f", "a", "l", "s", "e">>) THEN
        [ok |-> TRUE, pos |-> i + 5, isNull |-> FALSE, str |-> <<"f", "a", "l", "s", "e">>,
         elems |-> <<>>]
    ELSE IF s[i] \in JsonDigits THEN
        LET stop == {j \in i..Len(s) : s[j] \notin JsonDigits}
            last == IF stop = {} THEN Len(s) ELSE Min(stop) - 1
        IN  IF s[i] = "0" /\ last > i THEN JsonFail
            ELSE [ok |-> TRUE, pos |-> last + 1, isNull |-> FALSE,
                  str |-> SubSeq(s, i, last), elems |-> <<>>]
    ELSE JsonFail

\* the elements of an array from index i up to and including its ']'
ParseElems(s, i) ==
    LET v == ParseValue(s, i)
        j == SkipWs(s, v.pos)
    IN  IF ~v.ok \/ j > Len(s) THEN JsonFail
        ELSE IF s[j] = "]" THEN
            [ok |-> TRUE, pos |-> j + 1, isNull |-> FALSE, str |-> <<>>,
             elems |-> <<[isNull |-> v.isNull, str |-> v.str]>>]
        ELSE IF s[j] = "," THEN
            LET r == ParseElems(s, SkipWs(s, j + 1))
            IN  IF r.ok
                THEN [r EXCEPT !.elems = <<[isNull |-> v.isNull, str |-> v.str]>> \o r.elems]
                ELSE JsonFail
        ELSE JsonFail

\* JSON.parse(s) for an s that starts with '[': ok is FALSE where it throws
JSONParse(s) ==
    LET v == ParseValue(s, SkipWs(s, 1))
    IN  IF v.ok /\ SkipWs(s, v.pos) = Len(s) + 1 THEN v ELSE JsonFail

(***************************************************************************)
(* compactStrings (lines 88-100)                                           *)
(***************************************************************************)
RECURSIVE compactStrings(_)
compactStrings(values) ==
    IF values = <<>> THEN <<>>
    ELSE LET value == values[1]
             normalized == Trim(value.str)
         IN  IF value.isNull THEN compactStrings(Tail(values))
             ELSE IF Len(normalized) > 0
                  THEN <<normalized>> \o compactStrings(Tail(values))
                  ELSE compactStrings(Tail(values))

(***************************************************************************)
(* extractMetadata (lines 122-198)                                         *)
(***************************************************************************)
\* a variant of InlineHints that keeps the text of a list it cannot parse
InlineHintsRawFallback(line) ==
    LET inline == Trim(Slice(line, Len(ReadWhenKey)))
    IN  IF StartsWith(inline, <<"[">>) /\ EndsWith(inline, <<"]">>)
        THEN LET parsed == JSONParse(ReplaceSingleQuotes(inline))
             IN  IF parsed.ok THEN compactStrings(parsed.elems) ELSE <<inline>>
        ELSE <<>>

\* lines 156-166: the hints an inline list of a read_when: line contributes
InlineHints(line) ==
    LET inline == Trim(Slice(line, Len(ReadWhenKey)))
    IN  IF StartsWith(inline, <<"[">>) /\ EndsWith(inline, <<"]">>)
        THEN LET parsed == JSONParse(ReplaceSingleQuotes(inline))
             IN  IF parsed.ok THEN compactStrings(parsed.elems) ELSE <<>>
        ELSE <<>>

\* a variant of LoopBody in which a blank line ends the collecting
LoopBodyBlankEnds(st, rawLine) ==
    LET line == Trim(rawLine)
    IN  IF StartsWith(line, SummaryKey)
        THEN [st EXCEPT !.summaryLine = line, !.collectingField = Null]
        ELSE IF StartsWith(line, ReadWhenKey)
        THEN [st EXCEPT !.collectingField = ReadWhenField,
                        !.readWhen = @ \o InlineHints(line)]
        ELSE IF st.collectingField = ReadWhenField
        THEN IF StartsWith(line, ItemPrefix)
             THEN LET hint == Trim(Slice(line, 2))
                  IN  IF hint /= <<>> THEN [st EXCEPT !.readWhen = Append(@, hint)] ELSE st
             ELSE [st EXCEPT !.collectingField = Null]
        ELSE st

\* lines 146-180: one iteration of the loop over the lines
LoopBody(st, rawLine) ==
    LET line == Trim(rawLine)
    IN  IF StartsWith(line, SummaryKey)
        THEN [st EXCEPT !.summaryLine = line, !.collectingField = Null]
        ELSE IF StartsWith(line, ReadWhenKey)
        THEN [st EXCEPT !.collectingField = ReadWhenField,
                        !.readWhen = @ \o InlineHints(line)]
        ELSE IF st.collectingField = ReadWhenField
        THEN IF StartsWith(line, ItemPrefix)
             THEN LET hint == Trim(Slice(line, 2))
                  IN  IF hint /= <<>> THEN [st EXCEPT !.readWhen = Append(@, hint)] ELSE st
             ELSE IF line = <<>> THEN st
             ELSE [st EXCEPT !.collectingField = Null]
        ELSE st

\* lines 187-191: the normalized summary of a summary line
NormalizeSummary(sline) ==
    LET summaryValue == Trim(Slice(sline, Len(SummaryKey)))
    IN  Trim(CollapseWhiteSpace(StripQuotes(summaryValue)))

\* a variant of FinalResult that tests the value before it is normalized
FinalResultRawTest(st) ==
    IF st.summaryLine = Null \/ st.summaryLine = <<>>
    THEN [summary |-> Null, readWhen |-> st.readWhen, error |-> ErrKeyMissing]
    ELSE IF Trim(Slice(st.summaryLine, Len(SummaryKey))) = <<>>
         THEN [summary |-> Null, readWhen |-> st.readWhen, error |-> ErrEmpty]
         ELSE [summary |-> NormalizeSummary(st.summaryLine), readWhen |-> st.readWhen,
               error |-> Undefined]

\* lines 183-197: the value returned after the loop
FinalResult(st) ==
    IF st.summaryLine = Null \/ st.summaryLine = <<>>
    THEN [summary |-> Null, readWhen |-> st.readWhen, error |-> ErrKeyMissing]
    ELSE LET normalized == NormalizeSummary(st.summaryLine)
         IN  IF normalized = <<>>
             THEN [summary |-> Null, readWhen |-> st.readWhen, error |-> ErrEmpty]
             ELSE [summary |-> normalized, readWhen |-> st.readWhen, error |-> Undefined]

\* lines 129-136: the error of the early return, or Undefined when there is none
EarlyError(content) ==
    IF ~StartsWith(content, FenceText) THEN ErrMissing
    ELSE IF IndexOfFrom(content, NlFenceText, 3) = -1 THEN ErrUnterminated
    ELSE Undefined

\* lines 133-139: the lines of the front matter
FrontMatterLines(content) ==
    LET endIndex == IndexOfFrom(content, NlFenceText, 3)
        frontMatter == Trim(Slice2(content, 3, endIndex))
    IN  Split(frontMatter, "\n")

(***************************************************************************)
(* Paths and the file system.  A path is the sequence of its segment       *)
(* names below "/"; fs holds one record per existing file or directory.    *)
(***************************************************************************)
DocsName == <<"d", "o", "c", "s">>
MdSuffix == <<".", "m", "d">>
DotDot   == <<".", ".">>
Dot      == <<".">>

\* line 9: resolve(docsListDir, '..'), the script being /repo/scripts/docs-list.ts
repoRoot == << <<"r", "e", "p", "o">> >>

\* path.resolve(base, s) for an absolute base and a string s
RECURSIVE Normalize(_, _)
Normalize(acc, segs) ==
    IF segs = <<>> THEN acc
    ELSE IF segs[1] = <<>> \/ segs[1] = Dot THEN Normalize(acc, Tail(segs))
    ELSE IF segs[1] = DotDot
         THEN Normalize(IF acc = <<>> THEN acc ELSE SubSeq(acc, 1, Len(acc) - 1), Tail(segs))
    ELSE Normalize(Append(acc, segs[1]), Tail(segs))

PathResolve(base, s) ==
    Normalize(IF StartsWith(s, <<"/">>) THEN <<>> ELSE base, Split(s, "/"))

\* the string of an absolute path
PathString(p) == IF p = <<>> THEN <<"/">> ELSE <<"/">> \o Join(p, <<"/">>)

\* path.relative(from, to) for absolute normalized paths, as a string
relative(from, to) ==
    LET same == {k \in 0..Len(from) : k <= Len(to) /\ SubSeq(from, 1, k) = SubSeq(to, 1, k)}
        k == Max(same)
        ups == [i \in 1..(Len(from) - k) |-> DotDot]
    IN  Join(ups \o SubSeq(to, k + 1, Len(to)), <<"/">>)

\* fs.existsSync(p)
existsSync(p) == p = <<>> \/ \E n \in fs : n.path = p

IsDirectory(p) == p = <<>> \/ \E n \in fs : n.path = p /\ n.kind = "dir"

\* fs.readdirSync(dir, { withFileTypes: true }), as the set of its entries
readdirSync(dir) ==
    {n \in fs : Len(n.path) = Len(dir) + 1 /\ SubSeq(n.path, 1, Len(dir)) = dir}

\* fs.readFileSync(p, 'utf8') of an existing file
readFileSync(p) == (CHOOSE n \in fs : n.path = p).content

(***************************************************************************)
(* readFlagValue, isInsideRepoRoot, resolveDocsDir (lines 11-82)           *)
(***************************************************************************)
HelpFlag      == <<"-", "-", "h", "e", "l", "p">>
ShortHelpFlag == <<"-", "h">>
DocsFlag      == <<"-", "-", "d", "o", "c", "s">>
RootFlag      == <<"-", "-", "r", "o", "o", "t">>

Includes(args, x) == \E i \in 1..Len(args) : args[i] = x

readFlagValue(args, flag) ==
    IF ~Includes(args, flag) THEN Null
    ELSE LET idx == Min({i \in 1..Len(args) : args[i] = flag})
             value == IF idx + 1 <= Len(args) THEN args[idx + 1] ELSE Undefined
         IN  IF value = Undefined \/ value = <<>> \/ StartsWith(value, <<"-">>)
             THEN <<>>
             ELSE value

isInsideRepoRoot(dir) ==
    LET rel == relative(repoRoot, dir)
    IN  rel = <<>> \/ (~StartsWith(rel, <<".", ".">>) /\ ~StartsWith(rel, <<".", ".", "/">>))

\* process.env.X?.trim()
TrimEnv(v) == IF v = Undefined THEN Undefined ELSE Trim(v)

Truthy(s) == s /= Undefined /\ s /= Null /\ s /= <<>>

UsageText == <<"U", "s", "a", "g", "e", ":", " ", "b", "u", "n", " ", "s", "c", "r", "i", "p",
    "t", "s", "/", "d", "o", "c", "s", "-", "l", "i", "s", "t", ".", "t", "s", " ", "[", "-",
    "-", "d", "o", "c", "s", " ", "<", "p", "a", "t", "h", ">", "]", " ", "[", "-", "-", "r",
    "o", "o", "t", " ", "<", "p", "a", "t", "h", ">", "]", "\n", " ", " ", "-", "-", "d", "o",
    "c", "s", " ", "<", "p", "a", "t", "h", ">", " ", " ", "E", "x", "p", "l", "i", "c", "i",
    "t", " ", "d", "o", "c", "s", " ", "d", "i", "r", "e", "c", "t", "o", "r", "y", ".", "\n",
    " ", " ", "-", "-", "r", "o", "o", "t", " ", "<", "p", "a", "t", "h", ">", " ", " ", "R",
    "e", "p", "o", " ", "r", "o", "o", "t", ";", " ", "d", "o", "c", "s", " ", "a", "s", "s",
    "u", "m", "e", "d", " ", "a", "t", " ", "<", "r", "o", "o", "t", ">", "/", "d", "o", "c",
    "s", ".", "\n", "E", "n", "v", " ", "v", "a", "r", "s", ":", " ", "D", "O", "C", "S", "_",
    "D", "I", "R", " ", "o", "r", " ", "D", "O", "C", "S", "_", "R", "O", "O", "T", ".">>
DocsRequiresText == <<"E", "r", "r", "o", "r", ":", " ", "-", "-", "d", "o", "c", "s", " ",
    "r", "e", "q", "u", "i", "r", "e", "s", " ", "a", " ", "p", "a", "t", "h", ".">>
RootRequiresText == <<"E", "r", "r", "o", "r", ":", " ", "-", "-", "r", "o", "o", "t", " ",
    "r", "e", "q", "u", "i", "r", "e", "s", " ", "a", " ", "p", "a", "t", "h", ".">>
NotFoundText == <<"E", "r", "r", "o", "r", ":", " ", "d", "o", "c", "s", " ", "d", "i", "r",
    "e", "c", "t", "o", "r", "y", " ", "n", "o", "t", " ", "f", "o", "u", "n", "d", ".", " ",
    "P", "r", "o", "v", "i", "d", "e", " ", "-", "-", "d", "o", "c", "s", " ", "<", "p", "a",
    "t", "h", ">", ",", " ", "-", "-", "r", "o", "o", "t", " ", "<", "p", "a", "t", "h", ">",
    ",", " ", "o", "r", " ", "s", "e", "t", " ", "D", "O", "C", "S", "_", "D", "I", "R", "/",
    "D", "O", "C", "S", "_", "R", "O", "O", "T", ".">>
ListingText == <<"L", "i", "s", "t", "i", "n", "g", " ", "a", "l", "l", " ", "m", "a", "r",
    "k", "d", "o", "w", "n", " ", "f", "i", "l", "e", "s", " ", "i", "n", " ", "d", "o", "c",
    "s", " ", "f", "o", "l", "d", "e", "r", ":", " ">>
ReminderText == <<"\n", "R", "e", "m", "i", "n", "d", "e", "r", ":", " ", "k", "e", "e", "p",
    " ", "d", "o", "c", "s", " ", "u", "p", " ", "t", "o", " ", "d", "a", "t", "e", " ", "a",
    "s", " ", "b", "e", "h", "a", "v", "i", "o", "r", " ", "c", "h", "a", "n", "g", "e", "s",
    ".", " ", "W", "h", "e", "n", " ", "y", "o", "u", "r", " ", "t", "a", "s", "k", " ", "m",
    "a", "t", "c", "h", "e", "s", " ", "a", "n", "y", " ", "\"", "R", "e", "a", "d", " ", "w",
    "h", "e", "n", "\"", " ", "h", "i", "n", "t", " ", "a", "b", "o", "v", "e", " ", "(", "R",
    "e", "a", "c", "t", " ", "h", "o", "o", "k", "s", ",", " ", "c", "a", "c", "h", "e", " ",
    "d", "i", "r", "e", "c", "t", "i", "v", "e", "s", ",", " ", "d", "a", "t", "a", "b", "a",
    "s", "e", " ", "w", "o", "r", "k", ",", " ", "t", "e", "s", "t", "s", ",", " ", "e", "t",
    "c", ".", ")", ",", " ", "r", "e", "a", "d", " ", "t", "h", "a", "t", " ", "d", "o", "c",
    " ", "b", "e", "f", "o", "r", "e", " ", "c", "o", "d", "i", "n", "g", ",", " ", "a", "n",
    "d", " ", "s", "u", "g", "g", "e", "s", "t", " ", "n", "e", "w", " ", "c", "o", "v", "e",
    "r", "a", "g", "e", " ", "w", "h", "e", "n", " ", "i", "t", " ", "i", "s", " ", "m", "i",
    "s", "s", "i", "n", "g", ".">>

ExitWith(code, stream, stmt, text) ==
    [exits |-> TRUE, code |-> code, dir |-> <<>>,
     line |-> [stream |-> stream, stmt |-> stmt, text |-> text]]

Resolved(dir) ==
    [exits |-> FALSE, code |-> 0, dir |-> dir,
     line |-> [stream |-> "none", stmt |-> 0, text |-> <<>>]]

\* stmt is the source line of the console call that writes the text
resolveDocsDir ==
    LET args == argv
        docsArg == readFlagValue(args, DocsFlag)
        rootArg == readFlagValue(args, RootFlag)
        docsDirEnv == TrimEnv(envDocsDir)
        docsRootEnv == TrimEnv(envDocsRoot)
        cwdDocs == Append(cwd, DocsName)
        repoDocs == Append(repoRoot, DocsName)
    IN  IF Includes(args, HelpFlag) \/ Includes(args, ShortHelpFlag)
        THEN ExitWith(0, "stdout", 31, UsageText)
        ELSE IF docsArg /= Null
        THEN IF docsArg = <<>>
             THEN ExitWith(1, "stderr", 43, DocsRequiresText)
             ELSE Resolved(PathResolve(cwd, docsArg))
        ELSE IF rootArg /= Null
        THEN IF rootArg = <<>>
             THEN ExitWith(1, "stderr", 52, RootRequiresText)
             ELSE Resolved(Append(PathResolve(cwd, rootArg), DocsName))
        ELSE IF Truthy(docsDirEnv)
        THEN Resolved(PathResolve(cwd, docsDirEnv))
        ELSE IF Truthy(docsRootEnv)
        THEN Resolved(Append(PathResolve(cwd, docsRootEnv), DocsName))
        ELSE IF existsSync(cwdDocs)
        THEN Resolved(cwdDocs)
        ELSE IF isInsideRepoRoot(cwd) /\ existsSync(repoDocs)
        THEN Resolved(repoDocs)
        ELSE ExitWith(1, "stderr", 78, NotFoundText)

(***************************************************************************)
(* String.prototype.localeCompare: the comparison of the root collation    *)
(* on printable ASCII (the grave accent left out).  Strings are compared   *)
(* by the primary weights of their characters (punctuation, then digits,   *)
(* then letters without their case); strings equal in those are compared   *)
(* by case, lower case first.                                              *)
(***************************************************************************)
LowerLetters ==
    <<"a", "b", "c", "d", "e", "f", "g", "h", "i", "j", "k", "l", "m",
      "n", "o", "p", "q", "r", "s", "t", "u", "v", "w", "x", "y", "z">>
UpperLetters ==
    <<"A", "B", "C", "D", "E", "F", "G", "H", "I", "J", "K", "L", "M",
      "N", "O", "P", "Q", "R", "S", "T", "U", "V", "W", "X", "Y", "Z">>
CollationOrder ==
    <<" ", "_", "-", ",", ";", ":", "!", "?", ".", "'", "\"", "(", ")", "[", "]", "{", "}",
      "@", "*", "/", "\\", "&", "#", "%", "^", "+", "<", "=", ">", "|", "~", "$",
      "0", "1", "2", "3", "4", "5", "6", "7", "8", "9">> \o LowerLetters

IndexIn(seq, c) == CHOOSE i \in 1..Len(seq) : seq[i] = c

IsUpper(c) == \E i \in 1..Len(UpperLetters) : UpperLetters[i] = c

PrimaryWeight(c) ==
    IndexIn(CollationOrder, IF IsUpper(c) THEN LowerLetters[IndexIn(UpperLetters, c)] ELSE c)

TertiaryWeight(c) == IF IsUpper(c) THEN 1 ELSE 0

\* lexicographic comparison of two sequences of weights: -1, 0 or 1
CompareKeys(ka, kb) ==
    LET diff == {i \in 1..Len(ka) : i <= Len(kb) /\ ka[i] /= kb[i]}
    IN  IF diff /= {}
        THEN IF ka[Min(diff)] < kb[Min(diff)] THEN -1 ELSE 1
        ELSE IF Len(ka) < Len(kb) THEN -1
        ELSE IF Len(ka) > Len(kb) THEN 1
        ELSE 0

localeCompare(a, b) ==
    LET primary == CompareKeys([i \in 1..Len(a) |-> PrimaryWeight(a[i])],
                               [i \in 1..Len(b) |-> PrimaryWeight(b[i])])
    IN  IF primary /= 0 THEN primary
        ELSE CompareKeys([i \in 1..Len(a) |-> TertiaryWeight(a[i])],
                         [i \in 1..Len(b) |-> TertiaryWeight(b[i])])

(***************************************************************************)
(* walkMarkdownFiles (lines 102-120)                                       *)
(***************************************************************************)
ArchiveName  == <<"a", "r", "c", "h", "i", "v", "e">>
ResearchName == <<"r", "e", "s", "e", "a", "r", "c", "h">>

\* a variant of EXCLUDED_DIRS that lacks research
ExcludedArchiveOnly == {ArchiveName}

\* line 86
EXCLUDED_DIRS == {ArchiveName, ResearchName}

\* Array.prototype.sort with the comparator of line 119: a stable sort
InsertSorted(sorted, x) ==
    LET before == {i \in 1..Len(sorted) : localeCompare(sorted[i], x) <= 0}
        k == IF before = {} THEN 0 ELSE Max(before)
    IN  SubSeq(sorted, 1, k) \o <<x>> \o SubSeq(sorted, k + 1, Len(sorted))

\* a variant of SortFiles that leaves the files as they were pushed
SortFilesSkipped(files) == files

RECURSIVE SortFiles(_)
SortFiles(files) ==
    IF files = <<>> THEN <<>>
    ELSE InsertSorted(SortFiles(SubSeq(files, 1, Len(files) - 1)), files[Len(files)])

\* the orders in which readdirSync may list a set of entries
Orderings(S) ==
    {o \in [1..Cardinality(S) -> S] : \A i, j \in 1..Cardinality(S) : i /= j => o[i] /= o[j]}

\* every concatenation of one sequence from each set of a sequence of sets
RECURSIVE Concats(_)
Concats(sets) ==
    IF sets = <<>> THEN {<<>>}
    ELSE {h \o t : h \in sets[1], t \in Concats(Tail(sets))}

\* The order of readdirSync is not specified: the operator gives the set of
\* the values the call can return, one for each order of each directory.
RECURSIVE walkMarkdownFiles(_, _)
walkMarkdownFiles(dir, base) ==
    LET entries == readdirSync(dir)
        Pushed(entry) ==
            LET name == entry.path[Len(entry.path)]
                fullPath == entry.path
            IN  IF StartsWith(name, <<".">>) THEN {<<>>}
                ELSE IF entry.kind = "dir"
                THEN IF name \in EXCLUDED_DIRS THEN {<<>>}
                     ELSE walkMarkdownFiles(fullPath, base)
                ELSE IF entry.kind = "file" /\ EndsWith(name, MdSuffix)
                THEN {<<relative(base, fullPath)>>}
                ELSE {<<>>}
        Files(order) == Concats([i \in 1..Len(order) |-> Pushed(order[i])])
    IN  {SortFiles(files) : files \in UNION {Files(order) : order \in Orderings(entries)}}

(***************************************************************************)
(* The report (lines 200-220)                                              *)
(***************************************************************************)
LogLine(stmt, text) == [stream |-> "stdout", stmt |-> stmt, text |-> text]

\* lines 207-215: what one iteration of the loop writes
ReportLines(relativePath, res) ==
    IF Truthy(res.summary)
    THEN <<LogLine(208, relativePath \o <<" ", "-", " ">> \o res.summary)>> \o
         (IF Len(res.readWhen) > 0
          THEN <<LogLine(210, <<" ", " ", "R", "e", "a", "d", " ", "w", "h", "e", "n", ":", " ">>
                              \o Join(res.readWhen, <<";", " ">>))>>
          ELSE <<>>)
    ELSE LET reason == IF Truthy(res.error)
                       THEN <<" ", "-", " ", "[">> \o res.error \o <<"]">>
                       ELSE <<>>
         IN  <<LogLine(214, relativePath \o reason)>>

\* lines 141-143: the variables of the loop before its first iteration
LoopStart == [summaryLine |-> Null, readWhen |-> <<>>, collectingField |-> Null]

\* lines 145-181: the loop over all the lines
RECURSIVE RunLoop(_, _)
RunLoop(st, ls) == IF ls = <<>> THEN st ELSE RunLoop(LoopBody(st, ls[1]), Tail(ls))

\* lines 127-197: extractMetadata for the content of the file
extractMetadata(content) ==
    IF EarlyError(content) /= Undefined
    THEN [summary |-> Null, readWhen |-> <<>>, error |-> EarlyError(content)]
    ELSE FinalResult(RunLoop(LoopStart, FrontMatterLines(content)))

(***************************************************************************)
(* The script as a state machine                                           *)
(***************************************************************************)
NoResult == [summary |-> Null, readWhen |-> <<>>, error |-> Undefined]

\* line 204: the relativePath of the current iteration
relativePath == markdownFiles[fileIdx]

\* line 205: join(DOCS_DIR, relativePath)
CurrentFullPath == PathResolve(docsDir, relativePath)

\* line 84: const DOCS_DIR = resolveDocsDir(), which may end the process
ResolveDocsDir ==
    /\ pc = "resolve"
    /\ LET r == resolveDocsDir
       IN  IF r.exits
           THEN /\ out' = Append(out, r.line)
                /\ exitCode' = r.code
                /\ pc' = "exit"
                /\ docsDir' = docsDir
           ELSE /\ docsDir' = r.dir
                /\ pc' = "walk"
                /\ UNCHANGED <<out, exitCode>>
    /\ UNCHANGED <<argv, envDocsDir, envDocsRoot, cwd, fs, markdownFiles, fileIdx, lines,
                   lineIdx, summaryLine, readWhen, collectingField, result>>

\* lines 200-202: the heading and the walk.  readdirSync throws when DOCS_DIR
\* is no directory; nothing catches it and the process ends with code 1.
Walk ==
    /\ pc = "walk"
    /\ out' = Append(out, LogLine(200, ListingText \o PathString(docsDir)))
    /\ IF IsDirectory(docsDir)
       THEN /\ \E files \in walkMarkdownFiles(docsDir, docsDir) : markdownFiles' = files
            /\ fileIdx' = 1
            /\ pc' = "file"
            /\ exitCode' = exitCode
       ELSE /\ pc' = "exit"
            /\ exitCode' = 1
            /\ UNCHANGED <<markdownFiles, fileIdx>>
    /\ UNCHANGED <<argv, envDocsDir, envDocsRoot, cwd, fs, docsDir, lines, lineIdx,
                   summaryLine, readWhen, collectingField, result>>

\* lines 204-206 and 127-143: the next file is read; extractMetadata returns
\* at once or starts its loop
ExtractBegin ==
    /\ pc = "file"
    /\ fileIdx <= Len(markdownFiles)
    /\ LET content == readFileSync(CurrentFullPath)
       IN  IF EarlyError(content) /= Undefined
           THEN /\ result' = [summary |-> Null, readWhen |-> <<>>,
                              error |-> EarlyError(content)]
                /\ pc' = "report"
                /\ UNCHANGED <<lines, lineIdx, summaryLine, readWhen, collectingField>>
           ELSE /\ lines' = FrontMatterLines(content)
                /\ lineIdx' = 1
                /\ summaryLine' = LoopStart.summaryLine
                /\ readWhen' = LoopStart.readWhen
                /\ collectingField' = LoopStart.collectingField
                /\ pc' = "loop"
                /\ result' = NoResult
    /\ UNCHANGED <<argv, envDocsDir, envDocsRoot, cwd, fs, docsDir, markdownFiles,
                   fileIdx, out, exitCode>>

\* lines 145-181: one iteration
ExtractLine ==
    /\ pc = "loop"
    /\ lineIdx <= Len(lines)
    /\ LET st == LoopBody([summaryLine |-> summaryLine, readWhen |-> readWhen,
                           collectingField |-> collectingField], lines[lineIdx])
       IN  /\ summaryLine' = st.summaryLine
           /\ readWhen' = st.readWhen
           /\ collectingField' = st.collectingField
    /\ lineIdx' = lineIdx + 1
    /\ UNCHANGED <<argv, envDocsDir, envDocsRoot, cwd, fs, pc, docsDir, markdownFiles,
                   fileIdx, lines, result, out, exitCode>>

\* lines 183-197: the loop is over, extractMetadata returns
ExtractEnd ==
    /\ pc = "loop"
    /\ lineIdx > Len(lines)
    /\ result' = FinalResult([summaryLine |-> summaryLine, readWhen |-> readWhen,
                              collectingField |-> collectingField])
    /\ pc' = "report"
    /\ UNCHANGED <<argv, envDocsDir, envDocsRoot, cwd, fs, docsDir, markdownFiles,
                   fileIdx, lines, lineIdx, summaryLine, readWhen, collectingField,
                   out, exitCode>>

\* lines 207-215: the lines of the file are written; the locals of
\* extractMetadata are gone
ReportFile ==
    /\ pc = "report"
    /\ out' = out \o ReportLines(relativePath, result)
    /\ fileIdx' = fileIdx + 1
    /\ pc' = "file"
    /\ lines' = <<>>
    /\ lineIdx' = 0
    /\ summaryLine' = Null
    /\ readWhen' = <<>>
    /\ collectingField' = Null
    /\ UNCHANGED <<argv, envDocsDir, envDocsRoot, cwd, fs, docsDir, markdownFiles,
                   result, exitCode>>

\* lines 218-220: the closing reminder; the script ends
Reminder ==
    /\ pc = "file"
    /\ fileIdx > Len(markdownFiles)
    /\ out' = Append(out, LogLine(218, ReminderText))
    /\ exitCode' = 0
    /\ pc' = "exit"
    /\ UNCHANGED <<argv, envDocsDir, envDocsRoot, cwd, fs, docsDir, markdownFiles,
                   fileIdx, lines, lineIdx, summaryLine, readWhen, collectingField, result>>

Next ==
    \/ ResolveDocsDir
    \/ Walk
    \/ ExtractBegin
    \/ ExtractLine
    \/ ExtractEnd
    \/ ReportFile
    \/ Reminder

(***************************************************************************)
(* Initial states.  The script starts with its arguments, its environment, *)
(* its working directory and the file system given; the families below     *)
(* vary one of them each.                                                  *)
(***************************************************************************)
Start(a, dd, dr, c, f) ==
    /\ argv = a
    /\ envDocsDir = dd
    /\ envDocsRoot = dr
    /\ cwd = c
    /\ fs = f
    /\ pc = "resolve"
    /\ docsDir = <<>>
    /\ markdownFiles = <<>>
    /\ fileIdx = 0
    /\ lines = <<>>
    /\ lineIdx = 0
    /\ summaryLine = Null
    /\ readWhen = <<>>
    /\ collectingField = Null
    /\ result = NoResult
    /\ out = <<>>
    /\ exitCode = Running

SeqsUpTo(S, n) == UNION {[1..k -> S] : k \in 0..n}

File(path, content) == [path |-> path, kind |-> "file", content |-> content]
Dir(path)           == [path |-> path, kind |-> "dir", content |-> <<>>]

\* the directory /d and the file /d/a.md
DPath  == << <<"d">> >>
DArg   == <<"/", "d">>
AMd    == <<"a", ".", "m", "d">>
OneFile(content) == {Dir(repoRoot), Dir(DPath), File(Append(DPath, AMd), content)}

\* the script is run as `docs-list.ts --docs /d` in /repo on one file
StartOnContent(content) ==
    Start(<<DocsFlag, DArg>>, Undefined, Undefined, repoRoot, OneFile(content))

\* the content of the one file of such a run
TheContent == readFileSync(Append(DPath, AMd))

(***************************************************************************)
(* Runs on one file whose front matter is a sequence of lines about hints  *)
(***************************************************************************)
MaxBodyLines == 3

LineReadWhen == <<"r", "e", "a", "d", "_", "w", "h", "e", "n", ":">>
LineItemA == <<"-", " ", "a">>
LineItemB == <<" ", " ", "-", " ", "b", " ">>
LineBlank == <<>>
LineDash == <<"-", " ">>
LineSummary == <<"s", "u", "m", "m", "a", "r", "y", ":", " ", "s">>
LineSummaryBare == <<"s", "u", "m", "m", "a", "r", "y", ":">>
LineTitle == <<"t", "i", "t", "l", "e", ":", " ", "t">>
LineInline == <<"r", "e", "a", "d", "_", "w", "h", "e", "n", ":", " ", "[", "'", "a", "'", ",", " ", "'", "b", "'", "]">>
LineInlineBad == <<"r", "e", "a", "d", "_", "w", "h", "e", "n", ":", " ", "[", "'", "a", "'", ",", " ", "b", "]">>
LineInlineOpen == <<"r", "e", "a", "d", "_", "w", "h", "e", "n", ":", " ", "[", "'", "a", "'">>

HintLines ==
    {LineReadWhen, LineItemA, LineItemB, LineBlank, LineDash, LineSummary,
     LineSummaryBare, LineTitle, LineInline, LineInlineBad, LineInlineOpen}

\* a file that opens with ---, holds the body lines and closes with ---
Fenced(body) == Join(<<FenceText>> \o body \o <<FenceText, <<>>>>, <<"\n">>)

Init == \E body \in SeqsUpTo(HintLines, MaxBodyLines) : StartOnContent(Fenced(body))

Spec == Init /\ [][Next]_vars

(***************************************************************************)
(* Claims about the pass over the lines (specification Spec)               *)
(***************************************************************************)
Contains(s, p) == IndexOfFrom(s, p, 0) /= -1

IsSummaryLine(l)  == StartsWith(l, SummaryKey)
IsReadWhenLine(l) == StartsWith(l, ReadWhenKey)
IsItemLine(l)     == StartsWith(l, ItemPrefix)

\* the i-th line of the block as the pass sees it
PassLine(i) == Trim(lines[i])

\* hint-collecting is on when line i is reached: a read_when: line comes
\* before it, and only `- ` lines and blank lines lie between the two
CollectingWhenReached(i) ==
    \E j \in 1..(i - 1) :
        /\ IsReadWhenLine(PassLine(j))
        /\ \A k \in (j + 1)..(i - 1) : IsItemLine(PassLine(k)) \/ PassLine(k) = <<>>

\* what line i adds to the hint list
HintsOfLine(i) ==
    IF IsReadWhenLine(PassLine(i)) THEN InlineHints(PassLine(i))
    ELSE IF IsItemLine(PassLine(i)) /\ CollectingWhenReached(i)
              /\ Trim(Slice(PassLine(i), 2)) /= <<>>
         THEN <<Trim(Slice(PassLine(i), 2))>>
         ELSE <<>>

\* the hints of the first n lines, in document order, duplicates kept
RECURSIVE HintsUpTo(_)
HintsUpTo(n) == IF n = 0 THEN <<>> ELSE HintsUpTo(n - 1) \o HintsOfLine(n)

\* C10: in the pass over the lines of the block a `- ` line appends its
\* trimmed remainder exactly when hint-collecting is on as the line is
\* reached; collecting is off at first, turned on by every read_when: line,
\* kept on by `- ` lines and blank lines and turned off by a summary: line
\* or any other non-blank line; the final list is the collected items in
\* document order with duplicates kept.
C10_HintPass ==
    /\ pc = "loop" =>
          /\ readWhen = HintsUpTo(lineIdx - 1)
          /\ (collectingField = ReadWhenField) = CollectingWhenReached(lineIdx)
    /\ (pc = "report" /\ lineIdx > 0) => result.readWhen = HintsUpTo(Len(lines))

\* a read_when: line, a blank line and an item are passed and the item is
\* collected, and a run whose item follows another line and is left out
C10_Witness ==
    /\ pc = "report"
    /\ Len(lines) = 3
    /\ IsReadWhenLine(PassLine(1))
    /\ PassLine(2) = <<>>
    /\ IsItemLine(PassLine(3))
    /\ result.readWhen = <<Trim(Slice(PassLine(3), 2))>>

\* the raw lines of a file
ContentLines(content) == Split(content, <<"\n">>[1])

\* a read_when: line whose bracketed inline list JSON.parse rejects
IsUnparsableInline(rawLine) ==
    LET line == Trim(rawLine)
        inline == Trim(Slice(line, Len(ReadWhenKey)))
    IN  /\ IsReadWhenLine(line)
        /\ StartsWith(inline, <<"[">>) /\ EndsWith(inline, <<"]">>)
        /\ ~JSONParse(ReplaceSingleQuotes(inline)).ok

HasUnparsableInline(content) ==
    \E i \in 1..Len(ContentLines(content)) : IsUnparsableInline(ContentLines(content)[i])

\* the content with a bare read_when: line in place of every such line
WithBareReadWhen(content) ==
    LET ls == ContentLines(content)
    IN  Join([i \in 1..Len(ls) |-> IF IsUnparsableInline(ls[i]) THEN ReadWhenKey ELSE ls[i]],
             <<"\n">>)

\* C8: a block with a read_when: line whose bracketed inline list cannot
\* be parsed is extracted without an error; the summary, the failure reason
\* and the hints are those of the same block with a bare read_when: line in
\* its place (the line adds no hint, the other lines add theirs, collecting
\* is on for the lines that follow), and the run ends with code 0.
C8_UnparsableInlineIgnored ==
    HasUnparsableInline(TheContent) =>
        /\ (pc = "report" \/ (pc = "file" /\ fileIdx > 1) \/ pc = "exit") =>
              result = extractMetadata(WithBareReadWhen(TheContent))
        /\ pc = "exit" => exitCode = 0

\* an unparsable inline list is followed by an item, which is collected
C8_Witness ==
    /\ pc = "exit"
    /\ exitCode = 0
    /\ HasUnparsableInline(TheContent)
    /\ Len(result.readWhen) > 0
    /\ result.summary /= Null

\* C9 (as claimed): when extraction fails after the pass, with summary key
\* missing or summary is empty, the hints collected in the pass are in the
\* result and are written for the file: a "Read when:" line holds them.
C9_FailureHintsReported ==
    (/\ pc = "file"
     /\ fileIdx > 1
     /\ result.error \in {ErrKeyMissing, ErrEmpty}
     /\ Len(result.readWhen) > 0) =>
        \E i \in 1..Len(out) :
            /\ out[i].stmt = 210
            /\ Contains(out[i].text, Join(result.readWhen, <<";", " ">>))

(***************************************************************************)
(* Runs on one file made of short lines around the --- delimiters          *)
(* (specification SpecFence)                                               *)
(***************************************************************************)
MaxFenceLines == 3

FenceLineChoices ==
    {FenceText, <<"-", "-", "-", "-">>, <<"-", "-", "-", "t">>, <<"t">>, <<>>,
     <<"s", "u", "m", "m", "a", "r", "y", ":", " ", "a">>}

InitFence ==
    \E ls \in SeqsUpTo(FenceLineChoices, MaxFenceLines) : StartOnContent(Join(ls, <<"\n">>))

SpecFence == InitFence /\ [][Next]_vars

\* the content begins with a line that is exactly ---
BeginsWithFenceLine(content) == ContentLines(content)[1] = FenceText

\* a line after the first begins with ---
HasLaterFenceLine(content) ==
    \E i \in 2..Len(ContentLines(content)) : StartsWith(ContentLines(content)[i], FenceText)

\* C4 (as claimed): extraction fails with missing front matter exactly when
\* the content does not begin with a line consisting of exactly three
\* dashes (---- and ---title open nothing), and with unterminated front
\* matter when it does and no later line begins with three dashes.
C4_FenceLineExact ==
    pc = "report" =>
        /\ (result.error = ErrMissing) = ~BeginsWithFenceLine(TheContent)
        /\ (BeginsWithFenceLine(TheContent) /\ ~HasLaterFenceLine(TheContent)) =>
               result.error = ErrUnterminated

(***************************************************************************)
(* Runs on one file whose block holds a summary: line with a short value   *)
(* (specification SpecSummary)                                             *)
(***************************************************************************)
MaxValueLen == 4

ValueChars == {"'", "\"", "a", " "}

SummaryBodies ==
    {pre \o mid \o post :
        pre \in {<<>>, <<LineSummary>>, <<LineReadWhen, LineItemA>>},
        mid \in {<<>>} \cup {<<SummaryKey \o v>> : v \in SeqsUpTo(ValueChars, MaxValueLen)},
        post \in {<<>>, <<LineTitle>>}}

InitSummary == \E body \in SummaryBodies : StartOnContent(Fenced(body))

SpecSummary == InitSummary /\ [][Next]_vars

ProperlyDelimited(content) == BeginsWithFenceLine(content) /\ HasLaterFenceLine(content)

\* the lines between the opening line and the first later line that begins with ---
BlockLines(content) ==
    LET ls == ContentLines(content)
        close == Min({i \in 2..Len(ls) : StartsWith(ls[i], FenceText)})
    IN  SubSeq(ls, 2, close - 1)

SummaryLineIndexes(content) ==
    {i \in 1..Len(BlockLines(content)) : IsSummaryLine(Trim(BlockLines(content)[i]))}

\* the value recorded for the summary: what follows the prefix on the last summary: line
RecordedValue(content) ==
    Slice(Trim(BlockLines(content)[Max(SummaryLineIndexes(content))]), Len(SummaryKey))

OnlyQuotes(v) == v /= <<>> /\ \A i \in 1..Len(v) : v[i] \in QuoteChars

Succeeds(res) == res.error = Undefined

\* C5 (as claimed): for a properly delimited block, no summary: line gives
\* summary key missing; a summary value that is blank or made only of quote
\* characters, however many, gives summary is empty; a Success has a
\* non-empty summary.
C5_AnyQuotesEmpty ==
    (pc = "report" /\ ProperlyDelimited(TheContent)) =>
        /\ SummaryLineIndexes(TheContent) = {} => result.error = ErrKeyMissing
        /\ (/\ SummaryLineIndexes(TheContent) /= {}
            /\ \/ Trim(RecordedValue(TheContent)) = <<>>
               \/ OnlyQuotes(Trim(RecordedValue(TheContent)))) => result.error = ErrEmpty
        /\ Succeeds(result) => (result.summary /= Null /\ Len(result.summary) > 0)

\* C5 (amended): the same, for a value that is blank or made of one or two
\* quote characters.
C5_UpToTwoQuotesEmpty ==
    (pc = "report" /\ ProperlyDelimited(TheContent)) =>
        /\ SummaryLineIndexes(TheContent) = {} => result.error = ErrKeyMissing
        /\ (/\ SummaryLineIndexes(TheContent) /= {}
            /\ \/ Trim(RecordedValue(TheContent)) = <<>>
               \/ /\ OnlyQuotes(Trim(RecordedValue(TheContent)))
                  /\ Len(Trim(RecordedValue(TheContent))) <= 2) => result.error = ErrEmpty
        /\ Succeeds(result) => (result.summary /= Null /\ Len(result.summary) > 0)

\* a value of two quote characters has been found empty
C5_Witness ==
    /\ pc = "report"
    /\ SummaryLineIndexes(TheContent) /= {}
    /\ Len(Trim(RecordedValue(TheContent))) = 2
    /\ OnlyQuotes(Trim(RecordedValue(TheContent)))
    /\ result.error = ErrEmpty

\* one matching pair of quote characters around v removed, if there is one
StripMatchingPair(v) ==
    IF Len(v) >= 2 /\ v[1] \in QuoteChars /\ v[Len(v)] = v[1]
    THEN SubSeq(v, 2, Len(v) - 1)
    ELSE v

\* the normalized summary that extraction found: empty when it reports so
NormalizedFound(res) == IF res.error = ErrEmpty THEN <<>> ELSE res.summary

\* C6 (as claimed): the normalized summary is the value with one matching
\* pair of leading/trailing quote characters removed if and only if there is
\* such a pair, then every white space run collapsed to one space, then
\* trimmed; a lone leading quote, a lone trailing quote and a mismatched
\* pair stay.
C6_MatchingPairOnly ==
    (/\ pc = "report"
     /\ ProperlyDelimited(TheContent)
     /\ SummaryLineIndexes(TheContent) /= {}) =>
        NormalizedFound(result) =
            Trim(CollapseWhiteSpace(StripMatchingPair(Trim(RecordedValue(TheContent)))))

(***************************************************************************)
(* Runs on one file whose block is made of the lines of the documented     *)
(* example (specification SpecRoundTrip)                                   *)
(***************************************************************************)
MaxRoundTripLines == 4

LineOAuthSummary ==
    <<"s", "u", "m", "m", "a", "r", "y", ":", " ", "'", "H", "a", "n", "d", "l", "e", "s", " ",
      "O", "A", "u", "t", "h", " ", "f", "l", "o", "w", "s", "'">>
LineAuthItem ==
    <<"-", " ", "\"", "a", "u", "t", "h", " ", "c", "h", "a", "n", "g", "e", "s", "\"">>
LineTestsItem == <<"-", " ", "t", "e", "s", "t", "s">>
LineAuthInline ==
    <<"r", "e", "a", "d", "_", "w", "h", "e", "n", ":", " ", "[", "'", "a", "u", "t", "h", " ",
      "c", "h", "a", "n", "g", "e", "s", "'", ",", " ", "'", "t", "e", "s", "t", "s", "'", "]">>
TextHandlesOAuth ==
    <<"H", "a", "n", "d", "l", "e", "s", " ", "O", "A", "u", "t", "h", " ", "f", "l", "o", "w",
      "s">>
TextAuthChanges == <<"a", "u", "t", "h", " ", "c", "h", "a", "n", "g", "e", "s">>
TextTests == <<"t", "e", "s", "t", "s">>

RoundTripLines == {LineOAuthSummary, LineReadWhen, LineAuthItem, LineTestsItem, LineAuthInline}

InitRoundTrip ==
    \E body \in SeqsUpTo(RoundTripLines, MaxRoundTripLines) : StartOnContent(Fenced(body))

SpecRoundTrip == InitRoundTrip /\ [][Next]_vars

DocumentedBlock == <<LineOAuthSummary, LineReadWhen, LineAuthItem, LineTestsItem>>
InlineBlock     == <<LineOAuthSummary, LineAuthInline>>

\* C7 (as claimed): the documented block, a quoted summary and a
\* multi-line read_when: list with a quoted and a bare item, is extracted
\* without failure to the summary without its quotes and the hints without
\* theirs, in order: auth changes, tests; the inline form yields the same
\* hints.
C7_RoundTrip ==
    (pc = "report" /\ TheContent = Fenced(DocumentedBlock)) =>
        /\ Succeeds(result)
        /\ result.summary = TextHandlesOAuth
        /\ result.readWhen = <<TextAuthChanges, TextTests>>
        /\ result.readWhen = extractMetadata(Fenced(InlineBlock)).readWhen

(***************************************************************************)
(* Runs on a tree of files and directories below /d (specification         *)
(* SpecWalk)                                                               *)
(***************************************************************************)
MaxLeaves == 3

NameAMd == <<"a", ".", "m", "d">>
NameBMd == <<"B", ".", "m", "d">>
NameHiddenMd == <<".", "h", ".", "m", "d">>
NameCTxt == <<"c", ".", "t", "x", "t">>
NameSub == <<"s", "u", "b">>
NameHiddenDir == <<".", "h">>
NameLowerB == <<"b">>
NameDashMd == <<"a", "-", "b", ".", "m", "d">>
NameArchiveMd == <<"a", "r", "c", "h", "i", "v", "e", ".", "m", "d">>
NameLinkMd == <<"l", ".", "m", "d">>
NameDirMd == <<"x", ".", "m", "d">>
NameUpperArchive == <<"A", "r", "c", "h", "i", "v", "e">>

\* the leaves a tree is made of: the path below /d, the kind of the last
\* entry ("link" is an entry that is neither a file nor a directory), and
\* the index that picks the content of a file
Leaves ==
    { [rel |-> <<NameAMd>>, kind |-> "file", n |-> 0],
      [rel |-> <<NameBMd>>, kind |-> "file", n |-> 1],
      [rel |-> <<NameHiddenMd>>, kind |-> "file", n |-> 2],
      [rel |-> <<NameCTxt>>, kind |-> "file", n |-> 3],
      [rel |-> <<ArchiveName, NameAMd>>, kind |-> "file", n |-> 4],
      [rel |-> <<NameSub, ArchiveName, NameAMd>>, kind |-> "file", n |-> 0],
      [rel |-> <<NameSub, NameAMd>>, kind |-> "file", n |-> 1],
      [rel |-> <<NameSub, NameHiddenDir, NameAMd>>, kind |-> "file", n |-> 2],
      [rel |-> <<ResearchName, NameSub, NameAMd>>, kind |-> "file", n |-> 3],
      [rel |-> <<NameLowerB, NameAMd>>, kind |-> "file", n |-> 4],
      [rel |-> <<NameDashMd>>, kind |-> "file", n |-> 0],
      [rel |-> <<NameArchiveMd>>, kind |-> "file", n |-> 1],
      [rel |-> <<NameLinkMd>>, kind |-> "link", n |-> 2],
      [rel |-> <<NameDirMd, NameAMd>>, kind |-> "file", n |-> 3],
      [rel |-> <<NameUpperArchive, NameAMd>>, kind |-> "file", n |-> 4] }

ContentOk ==
    <<"-", "-", "-", "\n", "s", "u", "m", "m", "a", "r", "y", ":", " ", "s", "\n", "r", "e", "a", "d", "_", "w", "h", "e", "n", ":", "\n", "-", " ", "a", "\n", "-", "-", "-", "\n">>
ContentNoFence ==
    <<"#", " ", "t", "\n">>
ContentOpen ==
    <<"-", "-", "-", "\n", "s", "u", "m", "m", "a", "r", "y", ":", " ", "s", "\n">>
ContentNoKey ==
    <<"-", "-", "-", "\n", "t", "i", "t", "l", "e", ":", " ", "t", "\n", "-", "-", "-", "\n">>
ContentEmptySummary ==
    <<"-", "-", "-", "\n", "s", "u", "m", "m", "a", "r", "y", ":", "\n", "-", "-", "-", "\n">>

ContentChoices ==
    <<ContentOk, ContentNoFence, ContentOpen, ContentNoKey, ContentEmptySummary>>

\* the tree below /d that holds the leaves, the k-th rotation of the contents
TreeOf(leaves, k) ==
    {Dir(repoRoot), Dir(DPath)}
    \cup UNION {{Dir(DPath \o SubSeq(l.rel, 1, i)) : i \in 1..(Len(l.rel) - 1)} : l \in leaves}
    \cup {[path |-> DPath \o l.rel, kind |-> l.kind,
           content |-> ContentChoices[((l.n + k) % Len(ContentChoices)) + 1]] : l \in leaves}

InitWalk ==
    \E leaves \in {s \in SUBSET Leaves : Cardinality(s) <= MaxLeaves} :
        \E k \in 0..(Len(ContentChoices) - 1) :
            Start(<<DocsFlag, DArg>>, Undefined, Undefined, repoRoot, TreeOf(leaves, k))

SpecWalk == InitWalk /\ [][Next]_vars

\* the segments of a relative path string
Segments(p) == Split(p, <<"/">>[1])

\* C2: no path that walkMarkdownFiles returns has a segment that starts
\* with '.', and none lies under a directory named archive or research at
\* any depth, also when the hidden or excluded entry is or holds a .md file.
C2_NoHiddenNoExcluded ==
    \A i \in 1..Len(markdownFiles) :
        LET segs == Segments(markdownFiles[i])
        IN  /\ \A j \in 1..Len(segs) : ~StartsWith(segs[j], <<".">>)
            /\ \A j \in 1..(Len(segs) - 1) : segs[j] \notin {ArchiveName, ResearchName}

\* a tree with a hidden .md file, a .md file under research two levels
\* down and a .md file that is listed has been walked
C2_Witness ==
    /\ pc = "file"
    /\ Len(markdownFiles) > 0
    /\ \E n \in fs : n.kind = "file" /\ n.path = DPath \o <<NameHiddenMd>>
    /\ \E n \in fs : n.kind = "file" /\ n.path = DPath \o <<ResearchName, NameSub, NameAMd>>

\* the files the walk is to list: the .md files below DOCS_DIR with no
\* hidden segment and no directory named archive or research above them
ListedFiles ==
    {n \in fs :
        /\ n.kind = "file"
        /\ Len(n.path) > Len(docsDir) /\ SubSeq(n.path, 1, Len(docsDir)) = docsDir
        /\ EndsWith(n.path[Len(n.path)], MdSuffix)
        /\ \A j \in (Len(docsDir) + 1)..Len(n.path) : ~StartsWith(n.path[j], <<".">>)
        /\ \A j \in (Len(docsDir) + 1)..(Len(n.path) - 1) :
               n.path[j] \notin {ArchiveName, ResearchName}}

RelString(n) == Join(SubSeq(n.path, Len(docsDir) + 1, Len(n.path)), <<"/">>)

\* the lines of the report that name a file
PathLines == SelectSeq(out, LAMBDA l : l.stmt \in {208, 214})

\* the line of the report for the file n
IsLineOf(l, n) ==
    LET res == extractMetadata(n.content)
    IN  IF Succeeds(res)
        THEN l.text = RelString(n) \o <<" ", "-", " ">> \o res.summary
        ELSE l.text = RelString(n) \o <<" ", "-", " ", "[">> \o res.error \o <<"]">>

\* C3: whatever order the directories are listed in, the lines of the
\* report that name a file are the walked markdown files sorted by their
\* full relative paths (the order is that of localeCompare, the
\* lexicographic order of the locale), one line each; a file whose
\* extraction fails has its line, with the reason, in its place; the
\* script goes on to the closing reminder and ends with code 0.
C3_ReportSorted ==
    IsDirectory(docsDir) =>
        /\ pc \in {"file", "loop", "report"} =>
              /\ Len(markdownFiles) = Cardinality(ListedFiles)
              /\ Len(PathLines) = fileIdx - 1
              /\ fileIdx <= Len(markdownFiles) + (IF pc = "file" THEN 1 ELSE 0)
        /\ \A i \in 1..Len(PathLines) :
              /\ \E n \in ListedFiles : IsLineOf(PathLines[i], n)
              /\ \A n \in ListedFiles :
                    IsLineOf(PathLines[i], n) =>
                        Cardinality({m \in ListedFiles :
                                        localeCompare(RelString(m), RelString(n)) < 0}) = i - 1
        /\ pc = "exit" =>
              /\ exitCode = 0
              /\ Len(PathLines) = Cardinality(ListedFiles)
              /\ out[Len(out)] = LogLine(218, ReminderText)

\* a report of three files is complete, the second of which failed
C3_Witness ==
    /\ pc = "exit"
    /\ exitCode = 0
    /\ Len(PathLines) = 3
    /\ PathLines[2].stmt = 214
    /\ PathLines[3].stmt = 208

(***************************************************************************)
(* Runs that vary the arguments, the environment, the working directory    *)
(* and the docs directories that exist (specification SpecResolve)         *)
(***************************************************************************)
MaxArgs == 3

ArgE     == <<"e">>
ArgDashX == <<"-", "x">>
ArgTokens == {HelpFlag, ShortHelpFlag, DocsFlag, RootFlag, DArg, ArgE, ArgDashX, <<>>}

EnvBlank   == <<" ", " ">>
EnvPadded  == <<" ", "/", "d", " ">>
EnvChoices == {Undefined, EnvBlank, EnvPadded}

NameOther   == <<"o">>
NameDotDotX == <<".", ".", "x">>
CwdChoices  == {repoRoot, Append(repoRoot, NameSub), Append(repoRoot, NameDotDotX), <<NameOther>>}

\* a docs directory with one file in it
DocsTree(parent) ==
    {Dir(Append(parent, DocsName)), File(parent \o <<DocsName, NameAMd>>, ContentOk)}

BaseDirs ==
    {Dir(repoRoot), Dir(Append(repoRoot, NameSub)), Dir(Append(repoRoot, NameDotDotX)),
     Dir(<<NameOther>>)} \cup OneFile(ContentOk) \cup DocsTree(DPath)

InitResolve ==
    \E a \in SeqsUpTo(ArgTokens, MaxArgs), dd \in EnvChoices, dr \in EnvChoices,
       c \in CwdChoices, repoDocs \in BOOLEAN, cwdDocs \in BOOLEAN :
        Start(a, dd, dr, c,
              BaseDirs \cup (IF repoDocs THEN DocsTree(repoRoot) ELSE {})
                       \cup (IF cwdDocs THEN DocsTree(c) ELSE {}))

SpecResolve == InitResolve /\ [][Next]_vars

\* the value that follows the first occurrence of the flag, if it is a path:
\* there is an argument after the flag, it is not empty and does not start with '-'
FlagValue(flag) ==
    LET at == Min({i \in 1..Len(argv) : argv[i] = flag}) IN argv[at + 1]

FlagValueMalformed(flag) ==
    LET at == Min({i \in 1..Len(argv) : argv[i] = flag})
    IN  at = Len(argv) \/ argv[at + 1] = <<>> \/ argv[at + 1][1] = "-"

NonBlank(v) == v /= Undefined /\ \E i \in 1..Len(v) : v[i] \notin WhiteSpace

\* dir is the repository root or a descendant of it
RootOrDescendant(dir) == Len(dir) >= Len(repoRoot) /\ SubSeq(dir, 1, Len(repoRoot)) = repoRoot

\* the outcome of the first step whose trigger holds, in the order (1)-(8)
ClaimedOutcome ==
    IF Includes(argv, HelpFlag) \/ Includes(argv, ShortHelpFlag)
    THEN [exits |-> TRUE, code |-> 0, dir |-> <<>>]
    ELSE IF Includes(argv, DocsFlag)
    THEN IF FlagValueMalformed(DocsFlag)
         THEN [exits |-> TRUE, code |-> 1, dir |-> <<>>]
         ELSE [exits |-> FALSE, code |-> 0, dir |-> PathResolve(cwd, FlagValue(DocsFlag))]
    ELSE IF Includes(argv, RootFlag)
    THEN IF FlagValueMalformed(RootFlag)
         THEN [exits |-> TRUE, code |-> 1, dir |-> <<>>]
         ELSE [exits |-> FALSE, code |-> 0,
               dir |-> Append(PathResolve(cwd, FlagValue(RootFlag)), DocsName)]
    ELSE IF NonBlank(envDocsDir)
    THEN [exits |-> FALSE, code |-> 0, dir |-> PathResolve(cwd, Trim(envDocsDir))]
    ELSE IF NonBlank(envDocsRoot)
    THEN [exits |-> FALSE, code |-> 0,
          dir |-> Append(PathResolve(cwd, Trim(envDocsRoot)), DocsName)]
    ELSE IF existsSync(Append(cwd, DocsName))
    THEN [exits |-> FALSE, code |-> 0, dir |-> Append(cwd, DocsName)]
    ELSE IF RootOrDescendant(cwd) /\ existsSync(Append(repoRoot, DocsName))
    THEN [exits |-> FALSE, code |-> 0, dir |-> Append(repoRoot, DocsName)]
    ELSE [exits |-> TRUE, code |-> 1, dir |-> <<>>]

\* resolveDocsDir has ended the process
ExitedInResolve == pc = "exit" /\ Len(out) = 1 /\ out[1].stmt \in {31, 43, 52, 78}

\* C1 (as claimed): the outcome of resolveDocsDir is that of the first step
\* whose trigger holds, in the order: help; --docs; --root; DOCS_DIR;
\* DOCS_ROOT; <cwd>/docs if it exists; <repoRoot>/docs if cwd is the
\* repository root or a descendant of it and that directory exists;
\* otherwise exit 1.
C1_FirstTriggerWins ==
    /\ pc = "walk" => (~ClaimedOutcome.exits /\ docsDir = ClaimedOutcome.dir)
    /\ ExitedInResolve => (ClaimedOutcome.exits /\ exitCode = ClaimedOutcome.code)

====
